---- MODULE Spec2Model ----
(***************************************************************************)
(* A model of the user service of src/main.rs: the startup sequence of     *)
(* main, and the five HTTP handlers add_user, get_user, get_users,         *)
(* update_user and delete_user running concurrently against one MongoDB    *)
(* collection.  Every handler is an async fn with one awaited driver call: *)
(* its first half (up to the await) and its second half (the database      *)
(* executing the call, and the handler mapping the outcome to a response)  *)
(* are separate actions, so requests of different clients interleave.      *)
(***************************************************************************)
EXTENDS Naturals, Sequences, FiniteSets, Bags, TLC

VARIABLES
    pc,        \* position of main: start, connected, indexed, serving, panicked, exited
    client,    \* the Client handle of main: "none" or "connected"
    index,     \* the database holds a unique index on username
    coll,      \* the documents of myApp.users, in natural order
    inflight,  \* the bag of driver calls that handlers await
    last       \* the request completed last: its response and the driver's outcome

vars == <<pc, client, index, coll, inflight, last>>

\* ---------------------------------------------------------------- bounds

\* Number of requests that may be in flight at the same time.
MaxInFlight == 2

\* ---------------------------------------------------------------- values

\* A JSON value of a request body (serde_json::Value): a string, or an
\* unsigned number held as four 16-bit limbs, most significant first.
JStr(s) == [t |-> "string", s |-> s, n |-> <<0, 0, 0, 0>>]
JNum(n) == [t |-> "number", s |-> "", n |-> n]

\* A BSON value of a stored document.
BString(s) == [t |-> "String", s |-> s, n |-> <<0, 0, 0, 0>>]
BInt64(n) == [t |-> "Int64", s |-> "", n |-> n]

\* i64::MAX is 2^63 - 1: a u64 fits when its top limb is below 2^15.
TopLimbLimit == 32768

\* bson::to_bson on a serde_json::Value: a string becomes a BSON string, a
\* number an Int64 when it fits i64, and an error otherwise.
to_bson(j) ==
    IF j.t = "string" THEN [ok |-> TRUE, val |-> BString(j.s)]
    ELSE IF j.n[1] < TopLimbLimit THEN [ok |-> TRUE, val |-> BInt64(j.n)]
    ELSE [ok |-> FALSE, val |-> BInt64(j.n)]

UserFields == {"username", "first_name", "last_name", "email"}

\* model::User serialized by insert_one: every field a BSON string.
UserToDoc(u) == [k \in UserFields |-> BString(u[k])]

\* A document deserializes to model::User when every field is a string.
IsUserDoc(d) == \A k \in UserFields : d[k].t = "String"

DocToUser(d) == [k \in UserFields |-> d[k].s]

\* ---------------------------------------------------------------- inputs

MkUser(un, fn, ln, em) ==
    [username |-> un, first_name |-> fn, last_name |-> ln, email |-> em]

\* The bodies of POST /add_user: two users share the username "a".
Users ==
    { MkUser("a", "X", "Y", "e@x.com"),
      MkUser("a", "X", "Z", "e@x.com"),
      MkUser("b", "X", "Y", "e@x.com") }

Usernames == {"a", "b"}

NumFive == <<0, 0, 0, 5>>
NumU64Max == <<65535, 65535, 65535, 65535>>

\* The bodies of POST /update_user/{username}.
Forms ==
    { [last_name |-> JStr("Z")],
      [last_name |-> JStr("Y"), username |-> JStr("b")],
      [first_name |-> JNum(NumFive), email |-> JStr("f@x.com")],
      [email |-> JNum(NumU64Max), age |-> JNum(NumFive)] }

\* ---------------------------------------------------------------- database

Matches(c, username) == {i \in 1..Len(c) : c[i].username = BString(username)}

HasUser(c, username) == Matches(c, username) # {}

First(c, username) == CHOOSE i \in Matches(c, username) :
                          \A j \in Matches(c, username) : i <= j

HasDuplicates(c) ==
    \E i, j \in 1..Len(c) : i # j /\ c[i].username = c[j].username

Remove(c, i) == [j \in 1..(Len(c) - 1) |-> IF j < i THEN c[j] ELSE c[j + 1]]

\* The option of the index model: IndexOptions::builder().unique(true).
IndexNotUnique == FALSE
IndexUnique == TRUE

\* create_index: idempotent, and refused when the collection already holds
\* two documents with one username.
CreateIndex(c, idx, fault) ==
    IF fault # "none" THEN [err |-> "transport", index |-> idx]
    ELSE IF IndexUnique /\ ~idx /\ HasDuplicates(c)
         THEN [err |-> "duplicate", index |-> idx]
    ELSE [err |-> "none", index |-> idx \/ IndexUnique]

\* insert_one: the unique index refuses a second document with the username.
InsertOneUpsert(c, idx, doc, fault) ==
    IF fault # "none" THEN [err |-> "transport", coll |-> c]
    ELSE IF \E i \in 1..Len(c) : c[i].username = doc.username
         THEN [err |-> "none",
               coll |-> [i \in 1..Len(c) |->
                           IF c[i].username = doc.username THEN doc ELSE c[i]]]
    ELSE [err |-> "none", coll |-> Append(c, doc)]
InsertOne(c, idx, doc, fault) ==
    IF fault # "none" THEN [err |-> "transport", coll |-> c]
    ELSE IF idx /\ \E i \in 1..Len(c) : c[i].username = doc.username
         THEN [err |-> "duplicate", coll |-> c]
    ELSE [err |-> "none", coll |-> Append(c, doc)]

\* find_one into Collection<User>: the first match, deserialized.
FindOne(c, username, fault) ==
    IF fault # "none" THEN [err |-> "transport", found |-> FALSE, users |-> <<>>]
    ELSE IF ~HasUser(c, username) THEN [err |-> "none", found |-> FALSE, users |-> <<>>]
    ELSE IF ~IsUserDoc(c[First(c, username)])
         THEN [err |-> "deserialize", found |-> FALSE, users |-> <<>>]
    ELSE [err |-> "none", found |-> TRUE,
          users |-> <<DocToUser(c[First(c, username)])>>]

\* The $set of update_one on one document.
ApplySetReplace(doc, set) ==
    [k \in DOMAIN doc |-> IF k \in DOMAIN set THEN set[k]
                          ELSE IF k = "username" THEN doc[k] ELSE BString("")]
ApplySet(doc, set) ==
    [k \in DOMAIN doc |-> IF k \in DOMAIN set THEN set[k] ELSE doc[k]]

\* update_one: applies the $set to the first match; an empty $set is a no-op.
UpdateOne(c, username, set, fault) ==
    IF fault # "none" THEN [err |-> "transport", matched_count |-> 0, coll |-> c]
    ELSE IF ~HasUser(c, username) THEN [err |-> "none", matched_count |-> 0, coll |-> c]
    ELSE [err |-> "none", matched_count |-> 1,
          coll |-> [c EXCEPT ![First(c, username)] = ApplySet(@, set)]]

\* delete_one: removes the first match.
DeleteOneAll(c, username, fault) ==
    IF fault # "none" THEN [err |-> "transport", deleted_count |-> 0, coll |-> c]
    ELSE IF ~HasUser(c, username) THEN [err |-> "none", deleted_count |-> 0, coll |-> c]
    ELSE [err |-> "none", deleted_count |-> 1, coll |-> <<>>]
DeleteOne(c, username, fault) ==
    IF fault # "none" THEN [err |-> "transport", deleted_count |-> 0, coll |-> c]
    ELSE IF ~HasUser(c, username) THEN [err |-> "none", deleted_count |-> 0, coll |-> c]
    ELSE [err |-> "none", deleted_count |-> 1, coll |-> Remove(c, First(c, username))]

\* The text of a driver error (err.to_string()).
ErrText(err) ==
    CASE err = "duplicate" -> "E11000 duplicate key error"
      [] err = "deserialize" -> "invalid type: integer, expected a string"
      [] err = "transport" -> "server selection timeout"
      [] OTHER -> ""

\* ---------------------------------------------------------------- responses

Response(status, text, users, err) ==
    [status |-> status, text |-> text, json |-> users, err |-> err]

NotFoundText(username) == "No user found with username " \o username

AddUserResponseSwapped(res) ==
    IF res.err = "none" THEN Response(500, ErrText(res.err), <<>>, res.err)
    ELSE Response(200, "user added", <<>>, res.err)
AddUserResponse(res) ==
    IF res.err = "none" THEN Response(200, "user added", <<>>, res.err)
    ELSE Response(500, ErrText(res.err), <<>>, res.err)

GetUserResponse(res, username) ==
    IF res.err # "none" THEN Response(500, ErrText(res.err), <<>>, res.err)
    ELSE IF res.found THEN Response(200, "", res.users, res.err)
    ELSE Response(404, NotFoundText(username), <<>>, res.err)

\* get_users: find, then try_next().await.unwrap() on every document.
GetUsersResponse(c, fault) ==
    IF fault = "transport" THEN Response(500, ErrText("transport"), <<>>, "transport")
    ELSE IF fault = "cursor" THEN Response(0, "panicked", <<>>, "transport")
    ELSE IF \E i \in 1..Len(c) : ~IsUserDoc(c[i])
         THEN Response(0, "panicked", <<>>, "deserialize")
    ELSE Response(200, "", [i \in 1..Len(c) |-> DocToUser(c[i])], "none")

UpdateUserResponseAlways(res, username) ==
    IF res.err # "none" THEN Response(500, ErrText(res.err), <<>>, res.err)
    ELSE Response(200, "User updated", <<>>, res.err)
UpdateUserResponse(res, username) ==
    IF res.err # "none" THEN Response(500, ErrText(res.err), <<>>, res.err)
    ELSE IF res.matched_count > 0 THEN Response(200, "User updated", <<>>, res.err)
    ELSE Response(404, NotFoundText(username), <<>>, res.err)

DeleteUserResponse(res, username) ==
    IF res.err # "none" THEN Response(500, ErrText(res.err), <<>>, res.err)
    ELSE IF res.deleted_count > 0 THEN Response(200, "User deleted", <<>>, res.err)
    ELSE Response(404, NotFoundText(username), <<>>, res.err)

\* The keys update_user looks up in the form.
MutableFields == {"first_name", "last_name", "email"}

\* One `if let Some(..) = form.get(key) { if let Ok(..) = to_bson(..) {insert} }`.
InsertIfPresent(update_doc, form, key) ==
    IF key \in DOMAIN form /\ to_bson(form[key]).ok
    THEN [k \in DOMAIN update_doc \cup {key} |->
             IF k = key THEN to_bson(form[key]).val ELSE update_doc[k]]
    ELSE update_doc

\* The document update_user puts under $set.
EmptyDoc == [k \in {} |-> BString("")]

BuildUpdateDoc(form) ==
    InsertIfPresent(
        InsertIfPresent(
            InsertIfPresent(EmptyDoc, form, "first_name"),
            form, "last_name"),
        form, "email")

\* ---------------------------------------------------------------- state

NoRequest ==
    [op |-> "none", username |-> "", status |-> 0, text |-> "", json |-> <<>>,
     err |-> "none", overlap |-> FALSE]

\* What the database may hold when the process starts: nothing, or a
\* collection written without the index, holding one username twice.
InitialColls ==
    { <<>>,
      << UserToDoc(MkUser("a", "X", "Y", "e@x.com")),
         UserToDoc(MkUser("a", "X", "Z", "e@x.com")) >> }

Init ==
    /\ pc = "start"
    /\ client = "none"
    /\ coll \in InitialColls
    /\ index \in BOOLEAN
    /\ index => ~HasDuplicates(coll)
    /\ inflight = EmptyBag
    /\ last = NoRequest

Faults == {"none", "transport"}

\* ---------------------------------------------------------------- main

\* Client::with_uri_str(&uri).await.expect("failed to connect")
Connect ==
    /\ pc = "start"
    /\ \E ok \in BOOLEAN :
          IF ok THEN pc' = "connected" /\ client' = "connected"
                ELSE pc' = "panicked" /\ client' = "none"
    /\ UNCHANGED <<index, coll, inflight, last>>

\* .expect("creating an index should succeed")
ExpectIgnored(res) == "indexed"
Expect(res) == IF res.err = "none" THEN "indexed" ELSE "panicked"

\* create_username_index(&client).await
create_username_index ==
    /\ pc = "connected"
    /\ \E fault \in Faults :
          LET res == CreateIndex(coll, index, fault) IN
          /\ index' = res.index
          /\ pc' = Expect(res)
    /\ UNCHANGED <<client, coll, inflight, last>>

\* HttpServer::new(..).bind(("127.0.0.1", 8080))?.run()
BindAndRun ==
    /\ pc = "indexed"
    /\ \E bound \in BOOLEAN : pc' = IF bound THEN "serving" ELSE "exited"
    /\ UNCHANGED <<client, index, coll, inflight, last>>

\* ---------------------------------------------------------------- handlers

\* The server dispatches a request to its handler, which runs up to the await.
Call(call) ==
    /\ BagCardinality(inflight) < MaxInFlight
    /\ inflight' = inflight (+) SetToBag({call})
    /\ UNCHANGED <<pc, client, index, coll, last>>

Awaits(op) == {call \in BagToSet(inflight) : call.op = op}

\* Another update_one for the same username is in flight beside `call`.
Overlaps(call) ==
    \E other \in Awaits("update_one") :
        /\ other.username = call.username
        /\ (other # call \/ CopiesIn(call, inflight) > 1)

\* The handler's future resumes with the driver's result and responds.
Complete(call, op, resp, overlap) ==
    /\ last' = [op |-> op, username |-> call.username, status |-> resp.status,
                text |-> resp.text, json |-> resp.json, err |-> resp.err,
                overlap |-> overlap]
    /\ inflight' = inflight (-) SetToBag({call})

\* add_user up to insert_one(json.into_inner()).await
add_user_call(user) ==
    /\ pc = "serving"
    /\ Call([op |-> "insert_one", username |-> user.username, user |-> user,
             doc |-> UserToDoc(user)])

\* insert_one executes; add_user maps its result
add_user_resume ==
    /\ \E call \in Awaits("insert_one"), fault \in Faults :
          LET res == InsertOne(coll, index, call.doc, fault) IN
          /\ coll' = res.coll
          /\ Complete(call, "add_user", AddUserResponse(res), FALSE)
    /\ UNCHANGED <<pc, client, index>>

\* get_user up to find_one(doc! { "username": &username }).await
get_user_call(username) ==
    /\ pc = "serving"
    /\ Call([op |-> "find_one", username |-> username])

get_user_resume ==
    /\ \E call \in Awaits("find_one"), fault \in Faults :
          LET res == FindOne(coll, call.username, fault) IN
          Complete(call, "get_user", GetUserResponse(res, call.username), FALSE)
    /\ UNCHANGED <<pc, client, index, coll>>

\* get_users up to find(doc! {}).await
get_users_call ==
    /\ pc = "serving"
    /\ Call([op |-> "find", username |-> ""])

get_users_resume ==
    /\ \E call \in Awaits("find"), fault \in Faults \cup {"cursor"} :
          Complete(call, "get_users", GetUsersResponse(coll, fault), FALSE)
    /\ UNCHANGED <<pc, client, index, coll>>

\* update_user up to update_one(doc! { "username": &username }, update_doc).await
update_user_call(username, form) ==
    /\ pc = "serving"
    /\ Call([op |-> "update_one", username |-> username, form |-> form,
             set |-> BuildUpdateDoc(form)])

update_user_resume ==
    /\ \E call \in Awaits("update_one"), fault \in Faults :
          LET res == UpdateOne(coll, call.username, call.set, fault) IN
          /\ coll' = res.coll
          /\ Complete(call, "update_user", UpdateUserResponse(res, call.username),
                      Overlaps(call))
    /\ UNCHANGED <<pc, client, index>>

\* delete_user up to delete_one(doc! { "username": &username }).await
delete_user_call(username) ==
    /\ pc = "serving"
    /\ Call([op |-> "delete_one", username |-> username])

delete_user_resume ==
    /\ \E call \in Awaits("delete_one"), fault \in Faults :
          LET res == DeleteOne(coll, call.username, fault) IN
          /\ coll' = res.coll
          /\ Complete(call, "delete_user", DeleteUserResponse(res, call.username), FALSE)
    /\ UNCHANGED <<pc, client, index>>

Next ==
    \/ Connect
    \/ create_username_index
    \/ BindAndRun
    \/ \E user \in Users : add_user_call(user)
    \/ add_user_resume
    \/ \E username \in Usernames : get_user_call(username)
    \/ get_user_resume
    \/ get_users_call
    \/ get_users_resume
    \/ \E username \in Usernames, form \in Forms : update_user_call(username, form)
    \/ update_user_resume
    \/ \E username \in Usernames : delete_user_call(username)
    \/ delete_user_resume

Spec == Init /\ [][Next]_vars

\* ---------------------------------------------------------------- properties

\* The step resumes the handler awaiting `call`.
Resumed(call) ==
    /\ BagIn(call, inflight)
    /\ inflight' = inflight (-) SetToBag({call})

\* What GET /get_user/{username} answers on collection c when the driver call succeeds.
GetNow(c, username) == GetUserResponse(FindOne(c, username, "none"), username)

Stored(c, username) == c[First(c, username)]

\* The documents of c other than the first with this username, in order.
Others(c, username) ==
    IF HasUser(c, username) THEN Remove(c, First(c, username)) ELSE c

\* C1: once startup has created the unique index, no two stored users share
\* a username, whatever requests ran and however they interleaved.
C1_UsernameUnique ==
    pc \in {"indexed", "serving", "exited"} => ~HasDuplicates(coll)

C1_Witness ==
    /\ pc = "serving"
    /\ Len(coll) = 2
    /\ inflight # EmptyBag
    /\ last.op = "add_user" /\ last.err = "duplicate"

\* C2: add_user with a stored username answers 500 with the database's
\* error text and leaves the collection as it was; get_user for the username
\* then answers as before the attempt, with the stored user's values.
C2_DuplicateAddRejected ==
    [][\A call \in Awaits("insert_one") :
          (Resumed(call) /\ HasUser(coll, call.username) /\ last'.err # "transport")
          => /\ last'.status = 500
             /\ last'.text = "E11000 duplicate key error"
             /\ coll' = coll
             /\ GetNow(coll', call.username) = GetNow(coll, call.username)
             /\ IsUserDoc(Stored(coll, call.username))
                  => /\ GetNow(coll', call.username).status = 200
                     /\ GetNow(coll', call.username).json
                          = <<DocToUser(Stored(coll, call.username))>>]_vars

C2_Witness ==
    /\ last.op = "add_user" /\ last.status = 500 /\ last.err = "duplicate"
    /\ coll = <<UserToDoc(MkUser("a", "X", "Y", "e@x.com"))>>

\* C3 (as claimed): update_user on a stored user overwrites exactly the
\* fields among first_name, last_name and email that the payload holds,
\* keeps the others, the username and the other documents, answers 200, and
\* a following get_user returns the merged record.
C3_Merged(doc, form) ==
    [k \in UserFields |->
        IF k \in MutableFields \cap DOMAIN form THEN to_bson(form[k]).val ELSE doc[k]]

C3_PartialUpdateClaim ==
    [][\A call \in Awaits("update_one") :
          (/\ Resumed(call)
           /\ HasUser(coll, call.username)
           /\ IsUserDoc(Stored(coll, call.username))
           /\ last'.err # "transport")
          => LET merged == C3_Merged(Stored(coll, call.username), call.form) IN
             /\ last'.status = 200
             /\ coll' = [coll EXCEPT ![First(coll, call.username)] = merged]
             /\ GetNow(coll', call.username)
                  = Response(200, "", <<DocToUser(merged)>>, "none")]_vars

\* C4 (as claimed): the $set document holds only recognized fields of the
\* payload, each coerced to a string, so every stored field stays a string
\* and get_user on a stored username answers 200.
C4_FieldsStayStringsClaim ==
    /\ \A call \in Awaits("update_one") :
          DOMAIN call.set \subseteq MutableFields \cap DOMAIN call.form
    /\ \A i \in 1..Len(coll) :
          /\ IsUserDoc(coll[i])
          /\ GetNow(coll, coll[i].username.s).status = 200

\* C5: update_user or delete_user on a username that is not stored answers
\* 404 "No user found with username {u}" and leaves the collection as it was,
\* when the driver call itself succeeds.
C5_MissingUserNotFound ==
    [][\A call \in Awaits("update_one") \cup Awaits("delete_one") :
          (Resumed(call) /\ ~HasUser(coll, call.username) /\ last'.err # "transport")
          => /\ last'.status = 404
             /\ last'.text = "No user found with username " \o call.username
             /\ coll' = coll]_vars

C5_Witness ==
    /\ last.op = "update_user" /\ last.status = 404
    /\ Len(coll) = 1
    /\ ~HasUser(coll, last.username)

\* C6: delete_user on a stored username answers 200 and removes that user's
\* document and no other: get_user then answers 404 and every other document
\* is stored unchanged.
C6_DeleteExactlyOne ==
    [][\A call \in Awaits("delete_one") :
          (Resumed(call) /\ HasUser(coll, call.username) /\ last'.err # "transport")
          => /\ last'.status = 200
             /\ last'.text = "User deleted"
             /\ GetNow(coll', call.username).status = 404
             /\ coll' = Others(coll, call.username)
             /\ Len(coll') = Len(coll) - 1]_vars

C6_Witness ==
    /\ last.op = "delete_user" /\ last.status = 200
    /\ Len(coll) = 1
    /\ ~HasUser(coll, last.username)

\* C7: add_user with a username that is not stored answers 200 "user added",
\* and get_user for that username then answers 200 with a user equal to the
\* input in all four fields, when the driver call itself succeeds.
C7_AddThenGet ==
    [][\A call \in Awaits("insert_one") :
          (Resumed(call) /\ ~HasUser(coll, call.username) /\ last'.err # "transport")
          => /\ last'.status = 200
             /\ last'.text = "user added"
             /\ GetNow(coll', call.username).status = 200
             /\ GetNow(coll', call.username).json = <<call.user>>]_vars

C7_Witness ==
    /\ last.op = "add_user" /\ last.status = 200
    /\ HasUser(coll, last.username)
    /\ Len(coll) = 2

\* C8 (as claimed): every failure of a driver call, the cursor of get_users
\* included, is answered by 500 with the error text.
C8_ErrorsTranslatedClaim ==
    last.err # "none" => last.status = 500 /\ last.text = ErrText(last.err)

\* C9: requests are served only once main is serving, which it is only with
\* the client connected and the unique index in place; a failed startup
\* stays failed.
C9_Served == inflight # EmptyBag \/ last.op # "none"

C9_StartupOrder ==
    /\ [](C9_Served => pc = "serving")
    /\ [](pc \in {"indexed", "serving"} => client = "connected" /\ index)
    /\ [][(pc \in {"panicked", "exited"}) => (pc' = pc)]_vars

C9_Witness ==
    /\ pc = "panicked"
    /\ client = "connected"
    /\ HasDuplicates(coll)
    /\ ~index

\* C10: an update_one applied while another update of the same user is in
\* flight answers 200 and leaves every field with the value this update
\* wrote, or with the value it had; the rest of the collection is unchanged.
C10_LastWriteWins ==
    [][\A call \in Awaits("update_one") :
          (/\ Resumed(call)
           /\ Overlaps(call)
           /\ HasUser(coll, call.username)
           /\ last'.err # "transport")
          => /\ last'.status = 200
             /\ Len(coll') = Len(coll)
             /\ \A i \in 1..Len(coll) :
                   IF i = First(coll, call.username)
                   THEN /\ coll'[i].username = coll[i].username
                        /\ \A k \in MutableFields :
                              coll'[i][k] = IF k \in DOMAIN call.set
                                            THEN call.set[k] ELSE coll[i][k]
                   ELSE coll'[i] = coll[i]]_vars

C10_Witness ==
    /\ last.op = "update_user" /\ last.status = 200 /\ last.overlap
    /\ HasUser(coll, last.username)
    /\ Stored(coll, last.username).last_name = BString("Z")

====
